---- MODULE Spec2Model ----
(***************************************************************************)
(* Model of safety-checks-chat: the offline binary index builder           *)
(* (scripts/build-knowledge-bin.mjs), the process-wide index loader        *)
(* (src/lib/search.ts) and the request handlers of the chat and            *)
(* suggestions routes (src/app/api/.../route.ts).                          *)
(*                                                                         *)
(* Two specifications share the variables:                                 *)
(*   SpecBuild  the builder process running next to a server process that  *)
(*              calls loadKBBin(); the two are separate OS processes, so   *)
(*              every file-system call of one interleaves with the other;  *)
(*   SpecServe  the server process handling chat and suggestion requests   *)
(*              against an index that is already on disk.                  *)
(*                                                                         *)
(* Strings are sequences of one-character strings, so that length, prefix  *)
(* and substring tests are computed as the code computes them.             *)
(***************************************************************************)
EXTENDS Integers, Sequences, FiniteSets, TLC

VARIABLES
    \* ---- files under data/ ----
    metaFile,     \* data/kb.meta.json
    binFile,      \* data/kb.vec.bin
    \* ---- search.ts module state and the loadKBBin call in progress ----
    BIN,          \* let BIN: KBBin | null
    lpc,          \* position inside loadKBBin: "idle" | "readBin"
    metaRead,     \* the parsed sidecar held between the two readFileSync calls
    loadReads,    \* readFileSync calls made by the most recent loadKBBin call
    loadRet,      \* what the most recent loadKBBin call returned ("none" | "threw" | a KBBin)
    lastObs,      \* ghost: which build wrote each file the last full load read
    \* ---- build-knowledge-bin.mjs main() ----
    bpc,          \* position inside main()
    buildNo,      \* ghost: number of this run of the script
    facts,        \* let facts
    bi,           \* batch index (1-based)
    tries,        \* let tries
    ok,           \* let ok
    vectors,      \* const vectors
    DIM,          \* let DIM
    done,         \* let done
    exitCode,     \* process exit code (NoExit while running)
    lastSleep,    \* argument of the most recent sleep(ms)
    retried,      \* ghost: some attempt of this run has failed
    snapMeta,     \* ghost: kb.meta.json as it was when this run started
    snapBin,      \* ghost: kb.vec.bin as it was when this run started
    \* ---- server process: environment and the request being handled ----
    apiKey,       \* process.env.OPENAI_API_KEY is set
    today,        \* the calendar day new Date() returns
    rpc,          \* position of the request: "idle" | "embedding" | "completing" | "done"
    route,        \* "chat" | "suggestions"
    body,         \* the request body as sent
    userMsg,      \* const userMsg (chat) / lastUserText (suggestions)
    narrowed,     \* const narrowed = prefilter(kb, userMsg)
    searchSpace,  \* const searchSpace
    top,          \* const top
    resp,         \* the responses sent for this request, in order
    raised,       \* ghost: an exception was thrown while handling this request
    reqReads,     \* readFileSync calls made while handling this request
    embCalls,     \* openai.embeddings.create calls made for this request
    chatCalls,    \* openai.chat.completions.create calls made for this request
    binBefore,    \* ghost: BIN when this request arrived
    loadFailed,   \* ghost: a load has failed on a length mismatch in this process
    loadsAfterFail, \* ghost: a load was attempted after such a failure
    servedAfterFail, \* ghost: a request was answered from the index after such a failure
    hints,        \* const rid, dateIso, typeGuess of the chat handler
    \* ---- one function of the sources applied on its own (SpecUnit) ----
    call          \* [fn, args, out]: the function, its arguments, what it returned

diskVars   == <<metaFile, binFile>>
loaderVars == <<BIN, lpc, metaRead, loadReads, loadRet, lastObs>>
buildVars  == <<bpc, buildNo, facts, bi, tries, ok, vectors, DIM, done, exitCode,
                lastSleep, retried, snapMeta, snapBin>>
serveVars  == <<apiKey, today, rpc, route, body, userMsg, narrowed, searchSpace, top,
                resp, raised, reqReads, embCalls, chatCalls, binBefore, loadFailed,
                loadsAfterFail, servedAfterFail, hints>>
unitVars   == <<call>>
vars       == <<diskVars, loaderVars, buildVars, serveVars, unitVars>>

(***************************************************************************)
(* Bounds and program constants                                            *)
(***************************************************************************)
MaxFacts  == 3      \* facts one run of the builder extracts, at most
MaxBuilds == 2      \* runs of the builder in one behaviour
BatchSize == 2      \* stands for chunk(facts, 100): facts per embedding request
MaxTries  == 5      \* while (!ok && tries < 5)
ProviderDim == 2    \* stands for the 1536 floats text-embedding-3-small returns
MaxPhrases == 3     \* phrases in the text of one message, at most
TopK == 12          \* topKByCosine(qvec, searchSpace, 12)
DefaultLimit == 7   \* limit = 7 in the destructuring of the suggestions body

Min(a, b) == IF a < b THEN a ELSE b

NoExit == -1

\* let BIN: KBBin | null = null
NoBin == [loaded |-> FALSE, dim |-> 0, count |-> 0, items |-> <<>>, vec |-> <<>>]

NoMeta == [dim |-> 0, count |-> 0, items |-> <<>>, build |-> 0, full |-> FALSE]

(***************************************************************************)
(* The embedding provider, as the builder sees it.  A float is a record    *)
(* [val, of]: val is its value, of is the text it was computed for (a      *)
(* ghost tag that lets the packing order be checked).                      *)
(***************************************************************************)
\* client.embeddings.create: the raw vector the provider returns for one text
RawEmbedding(text) ==
    [j \in 1..ProviderDim |->
        [val |-> IF j = (text[2] % ProviderDim) + 1 THEN 1 + text[1] ELSE 0, of |-> text]]

RECURSIVE SumSq(_, _)
SumSq(e, j) == IF j = 0 THEN 0 ELSE e[j].val * e[j].val + SumSq(e, j - 1)

\* Math.sqrt on the sums of squares the model produces (integer square root)
RECURSIVE SqrtFrom(_, _)
SqrtFrom(n, r) == IF (r + 1) * (r + 1) > n THEN r ELSE SqrtFrom(n, r + 1)
Sqrt(n) == SqrtFrom(n, 0)

\* norm = Math.sqrt(norm) + 1e-9; e[j] = e[j] / norm
Normalize(e) ==
    LET norm == Sqrt(SumSq(e, Len(e)))
    IN  [j \in 1..Len(e) |->
            [val |-> IF norm = 0 THEN 0 ELSE e[j].val \div norm, of |-> e[j].of]]

(***************************************************************************)
(* build-knowledge-bin.mjs                                                 *)
(***************************************************************************)
\* The facts the b-th run extracts from its CSV: row i gives one fact whose
\* sentence <<b, i>> differs from run to run (the CSV changed in between).
BuildFact(b, i) ==
    [id   |-> <<i, "Opening_Check">>,
     text |-> <<b, i>>,
     meta |-> [type |-> "Opening_Check", restaurant_key |-> <<"7", "4">>,
               restaurant_name |-> <<>>, date_iso |-> <<>>]]

BuildFacts(b, n) == [i \in 1..n |-> BuildFact(b, i)]

\* The rows of a CSV of n rows, by their sentences: s[i] is the first row whose
\* sentence is that of row i (s[i] = i unless row i repeats an earlier row).  The
\* CSVs tried hold different rows throughout, or a second row repeating the first.
CsvRows(n) ==
    {s \in [1..n -> 1..n] : \A i \in 1..n : s[i] <= i /\ s[s[i]] = s[i] /\ (s[i] = i \/ i = 2)}

\* rowsToUse.forEach((row, i) => facts.push(...factsFromRow(row, i, ACTIVE_TYPES)))
factsFromRows(b, s) == [i \in 1..Len(s) |-> [BuildFact(b, i) EXCEPT !.text = <<b, s[i]>>]]

\* the de-dupe left out
Dedupe_none(fs) == fs

\* facts.filter(f => { if (seen.has(f.text)) return false; seen.add(f.text); return true; })
RECURSIVE Dedupe(_)
Dedupe(fs) ==
    IF fs = <<>> THEN <<>>
    ELSE LET before == Dedupe(SubSeq(fs, 1, Len(fs) - 1))
             f == fs[Len(fs)]
         IN  IF \E i \in 1..Len(before) : before[i].text = f.text THEN before
             ELSE Append(before, f)

\* function chunk(arr, n): the bi-th slice of BatchSize facts
Batch(fs, k) == SubSeq(fs, (k - 1) * BatchSize + 1, Min(k * BatchSize, Len(fs)))
NumBatches(fs) == (Len(fs) + BatchSize - 1) \div BatchSize

\* the Float32Array the packing loop fills: f32[i*DIM + j] = vectors[i][j]
Pack(vs, dim) ==
    [k \in 1..(Len(vs) * dim) |-> vs[((k - 1) \div dim) + 1][((k - 1) % dim) + 1]]

\* JSON.stringify({dim: DIM, count: facts.length, items: facts.map(...)})
Sidecar(dim, fs, b) ==
    [dim |-> dim, count |-> Len(fs), items |-> fs, build |-> b, full |-> TRUE]

BuilderIdle == bpc \in {"idle", "exit"} /\ buildNo < MaxBuilds

BuilderFrame == UNCHANGED <<loaderVars, serveVars, unitVars>>

\* main(): OPENAI_API_KEY missing or data/checks.csv missing -> throw -> exit(1)
Build_ConfigError ==
    /\ BuilderIdle
    /\ buildNo' = buildNo + 1
    /\ bpc' = "exit" /\ exitCode' = 1
    /\ facts' = <<>> /\ bi' = 1 /\ tries' = 0 /\ ok' = FALSE /\ vectors' = <<>>
    /\ DIM' = 0 /\ done' = 0 /\ lastSleep' = 0 /\ retried' = FALSE
    /\ snapMeta' = metaFile /\ snapBin' = binFile
    /\ UNCHANGED diskVars /\ BuilderFrame

\* main(): facts.length === 0 -> throw new Error("No facts to embed.") -> exit(1)
Build_NoFacts ==
    /\ BuilderIdle
    /\ buildNo' = buildNo + 1
    /\ bpc' = "exit" /\ exitCode' = 1
    /\ facts' = <<>> /\ bi' = 1 /\ tries' = 0 /\ ok' = FALSE /\ vectors' = <<>>
    /\ DIM' = 0 /\ done' = 0 /\ lastSleep' = 0 /\ retried' = FALSE
    /\ snapMeta' = metaFile /\ snapBin' = binFile
    /\ UNCHANGED diskVars /\ BuilderFrame

\* main() up to the first embedding request: facts built, de-duplicated, batches cut
Build_Begin ==
    /\ BuilderIdle
    /\ \E n \in 1..MaxFacts : \E s \in CsvRows(n) :
          facts' = Dedupe(factsFromRows(buildNo + 1, s))
    /\ buildNo' = buildNo + 1
    /\ bpc' = "embed" /\ exitCode' = NoExit
    /\ bi' = 1 /\ tries' = 0 /\ ok' = FALSE /\ vectors' = <<>>
    /\ DIM' = 0 /\ done' = 0 /\ lastSleep' = 0 /\ retried' = FALSE
    /\ snapMeta' = metaFile /\ snapBin' = binFile
    /\ UNCHANGED diskVars /\ BuilderFrame

\* EmbedSuccess of a builder whose failed attempts had pushed the batch's vectors
\* already: a batch that succeeds on a later attempt adds them once more
EmbedSuccess_repush ==
    /\ bpc = "embed"
    /\ LET b == Batch(facts, bi)
           vs == [i \in 1..Len(b) |-> Normalize(RawEmbedding(b[i].text))]
       IN  /\ DIM' = IF DIM = 0 THEN ProviderDim ELSE DIM
           /\ vectors' = IF tries > 0 THEN vectors \o vs \o vs ELSE vectors \o vs
           /\ done' = done + Len(b)
    /\ ok' = TRUE
    /\ bpc' = "loopEnd"
    /\ UNCHANGED <<buildNo, facts, bi, tries, exitCode, lastSleep, retried, snapMeta, snapBin>>
    /\ UNCHANGED diskVars /\ BuilderFrame

\* the try block: the request succeeds, every vector is normalised and pushed
EmbedSuccess ==
    /\ bpc = "embed"
    /\ LET b == Batch(facts, bi)
       IN  /\ DIM' = IF DIM = 0 THEN ProviderDim ELSE DIM
           /\ vectors' = vectors \o [i \in 1..Len(b) |-> Normalize(RawEmbedding(b[i].text))]
           /\ done' = done + Len(b)
    /\ ok' = TRUE
    /\ bpc' = "loopEnd"
    /\ UNCHANGED <<buildNo, facts, bi, tries, exitCode, lastSleep, retried, snapMeta, snapBin>>
    /\ UNCHANGED diskVars /\ BuilderFrame

\* the mutant of EmbedFail: the attempt fails after the first vector of the batch
\* was already pushed
EmbedFail_partialPush ==
    /\ bpc = "embed"
    /\ \E status \in {429, 500} :
          lastSleep' = IF status = 429 THEN 2000 * (tries + 1) ELSE 1000 * (tries + 1)
    /\ tries' = tries + 1
    /\ retried' = TRUE
    /\ vectors' = Append(vectors, Normalize(RawEmbedding(Batch(facts, bi)[1].text)))
    /\ bpc' = "sleep"
    /\ UNCHANGED <<buildNo, facts, bi, ok, DIM, done, exitCode, snapMeta, snapBin>>
    /\ UNCHANGED diskVars /\ BuilderFrame

\* the catch block: the request throws; tries++, then sleep(429 ? 2000*tries : 1000*tries)
EmbedFail ==
    /\ bpc = "embed"
    /\ \E status \in {429, 500} :
          lastSleep' = IF status = 429 THEN 2000 * (tries + 1) ELSE 1000 * (tries + 1)
    /\ tries' = tries + 1
    /\ retried' = TRUE
    /\ bpc' = "sleep"
    /\ UNCHANGED <<buildNo, facts, bi, ok, vectors, DIM, done, exitCode, snapMeta, snapBin>>
    /\ UNCHANGED diskVars /\ BuilderFrame

\* the sleep ends; while (!ok && tries < 5) decides whether to try again
SleepDone ==
    /\ bpc = "sleep"
    /\ bpc' = IF tries < MaxTries THEN "embed" ELSE "loopEnd"
    /\ UNCHANGED <<buildNo, facts, bi, tries, ok, vectors, DIM, done, exitCode, lastSleep,
                   retried, snapMeta, snapBin>>
    /\ UNCHANGED diskVars /\ BuilderFrame

\* the mutant of LoopEnd: the line "if (!ok) throw ..." is missing
LoopEnd_nothrow ==
    /\ bpc = "loopEnd"
    /\ IF bi < NumBatches(facts)
         THEN /\ bi' = bi + 1 /\ tries' = 0 /\ ok' = FALSE
              /\ bpc' = "embed"
         ELSE /\ bpc' = "writeBin"
              /\ UNCHANGED <<bi, tries, ok>>
    /\ UNCHANGED <<buildNo, facts, vectors, DIM, done, exitCode, lastSleep, retried, snapMeta, snapBin>>
    /\ UNCHANGED diskVars /\ BuilderFrame

\* after the while loop: if (!ok) throw new Error("Failed after retries.") -> exit(1);
\* otherwise the next batch, or the packing and the files
LoopEnd ==
    /\ bpc = "loopEnd"
    /\ IF ~ok
         THEN /\ bpc' = "exit" /\ exitCode' = 1
              /\ UNCHANGED <<bi, tries, ok>>
         ELSE IF bi < NumBatches(facts)
         THEN /\ bi' = bi + 1 /\ tries' = 0 /\ ok' = FALSE
              /\ bpc' = "embed"
              /\ UNCHANGED exitCode
         ELSE /\ bpc' = "writeBin"
              /\ UNCHANGED <<bi, tries, ok, exitCode>>
    /\ UNCHANGED <<buildNo, facts, vectors, DIM, done, lastSleep, retried, snapMeta, snapBin>>
    /\ UNCHANGED diskVars /\ BuilderFrame

\* fs.writeFileSync(binPath, ...) opens kb.vec.bin with O_TRUNC and writes the bytes:
\* until the call returns the file holds a proper prefix of the new content
WriteBinOpen ==
    /\ bpc = "writeBin"
    /\ \E k \in 0..(Len(vectors) * DIM - 1) :
          binFile' = [floats |-> SubSeq(Pack(vectors, DIM), 1, k), build |-> buildNo, full |-> FALSE]
    /\ bpc' = "writingBin"
    /\ UNCHANGED <<metaFile>>
    /\ UNCHANGED <<buildNo, facts, bi, tries, ok, vectors, DIM, done, exitCode, lastSleep,
                   retried, snapMeta, snapBin>>
    /\ BuilderFrame

WriteBinDone ==
    /\ bpc = "writingBin"
    /\ binFile' = [floats |-> Pack(vectors, DIM), build |-> buildNo, full |-> TRUE]
    /\ bpc' = "writeMeta"
    /\ UNCHANGED <<metaFile>>
    /\ UNCHANGED <<buildNo, facts, bi, tries, ok, vectors, DIM, done, exitCode, lastSleep,
                   retried, snapMeta, snapBin>>
    /\ BuilderFrame

\* fs.writeFileSync(metaPath, JSON.stringify(...)): truncated, then written
WriteMetaOpen ==
    /\ bpc = "writeMeta"
    /\ metaFile' = [NoMeta EXCEPT !.build = buildNo]
    /\ bpc' = "writingMeta"
    /\ UNCHANGED <<binFile>>
    /\ UNCHANGED <<buildNo, facts, bi, tries, ok, vectors, DIM, done, exitCode, lastSleep,
                   retried, snapMeta, snapBin>>
    /\ BuilderFrame

\* the sidecar is complete and main() returns: exit code 0
WriteMetaDone ==
    /\ bpc = "writingMeta"
    /\ metaFile' = Sidecar(DIM, facts, buildNo)
    /\ bpc' = "exit" /\ exitCode' = 0
    /\ UNCHANGED <<binFile>>
    /\ UNCHANGED <<buildNo, facts, bi, tries, ok, vectors, DIM, done, lastSleep,
                   retried, snapMeta, snapBin>>
    /\ BuilderFrame

(***************************************************************************)
(* search.ts: loadKBBin, as the builder process sees it (two readFileSync  *)
(* calls, between which the other process may run)                         *)
(***************************************************************************)
NoRet == [kind |-> "none", bin |-> NoBin]
Threw == [kind |-> "threw", bin |-> NoBin]
Returned(b) == [kind |-> "bin", bin |-> b]

NoObs == [seen |-> FALSE, metaBuild |-> 0, binBuild |-> 0, whole |-> TRUE]

\* new Float32Array(buf.buffer, buf.byteOffset, buf.byteLength / 4)
VecOf(bin) == bin.floats

\* if (vec.length !== count * dim) throw
LengthMismatch(meta, bin) == Len(VecOf(bin)) # meta.count * meta.dim

\* BIN = { dim, count, items, vec }
KBBinOf(meta, bin) ==
    [loaded |-> TRUE, dim |-> meta.dim, count |-> meta.count, items |-> meta.items,
     vec |-> VecOf(bin)]

LoaderFrame == UNCHANGED <<diskVars, buildVars, serveVars, unitVars>>

\* the mutant of loadKBBin_enter: the line "if (BIN) return BIN" is missing
loadKBBin_enter_nocache ==
    /\ lpc = "idle"
    /\ loadReads' = 1
    /\ IF ~metaFile.full
         THEN /\ loadRet' = Threw
              /\ lastObs' = [seen |-> TRUE, metaBuild |-> metaFile.build,
                             binBuild |-> metaFile.build, whole |-> FALSE]
              /\ UNCHANGED <<BIN, lpc, metaRead>>
         ELSE /\ metaRead' = metaFile
              /\ lpc' = "readBin"
              /\ UNCHANGED <<BIN, loadRet, lastObs>>
    /\ LoaderFrame

\* loadKBBin(): "if (BIN) return BIN", else readFileSync(metaPath) and JSON.parse
\* (which throws on a sidecar that is not completely written)
loadKBBin_enter ==
    /\ lpc = "idle"
    /\ IF BIN.loaded
         THEN /\ loadRet' = Returned(BIN)
              /\ loadReads' = 0
              /\ UNCHANGED <<BIN, lpc, metaRead, lastObs>>
         ELSE /\ loadReads' = 1
              /\ IF ~metaFile.full
                   THEN /\ loadRet' = Threw
                        /\ lastObs' = [seen |-> TRUE, metaBuild |-> metaFile.build,
                                       binBuild |-> metaFile.build, whole |-> FALSE]
                        /\ UNCHANGED <<BIN, lpc, metaRead>>
                   ELSE /\ metaRead' = metaFile
                        /\ lpc' = "readBin"
                        /\ UNCHANGED <<BIN, loadRet, lastObs>>
    /\ LoaderFrame

\* loadKBBin(): readFileSync(binPath), the length check, BIN = {...}
loadKBBin_readBin ==
    /\ lpc = "readBin"
    /\ loadReads' = 2
    /\ lastObs' = [seen |-> TRUE, metaBuild |-> metaRead.build, binBuild |-> binFile.build,
                   whole |-> binFile.full]
    /\ IF LengthMismatch(metaRead, binFile)
         THEN /\ loadRet' = Threw
              /\ UNCHANGED BIN
         ELSE /\ BIN' = KBBinOf(metaRead, binFile)
              /\ loadRet' = Returned(BIN')
    /\ lpc' = "idle"
    /\ UNCHANGED metaRead
    /\ LoaderFrame

(***************************************************************************)
(* SpecBuild: the builder next to a server process that loads the index    *)
(***************************************************************************)
\* the index a previous run left under data/
PreviousMeta == Sidecar(ProviderDim, BuildFacts(0, 1), 0)
PreviousBin ==
    [floats |-> Pack([i \in 1..1 |-> Normalize(RawEmbedding(BuildFact(0, i).text))], ProviderDim),
     build |-> 0, full |-> TRUE]

NoBody == [parsable |-> FALSE, messages |-> <<>>]
\* no function has been applied on its own
NoCall == [fn |-> "none", args |-> <<>>, out |-> <<>>]
NoHints == [rid |-> <<>>, dateIso |-> <<>>, typeGuess |-> "undefined"]

ServeIdle ==
    /\ apiKey = TRUE /\ today = <<2025, 9, 20>>
    /\ rpc = "idle" /\ route = "none" /\ body = NoBody /\ userMsg = <<>>
    /\ narrowed = <<>> /\ searchSpace = <<>> /\ top = <<>>
    /\ resp = <<>> /\ raised = FALSE
    /\ reqReads = 0 /\ embCalls = 0 /\ chatCalls = 0
    /\ binBefore = NoBin
    /\ loadFailed = FALSE /\ loadsAfterFail = FALSE /\ servedAfterFail = FALSE
    /\ hints = NoHints
    /\ call = NoCall

BuilderInit ==
    /\ bpc = "idle" /\ buildNo = 0 /\ facts = <<>> /\ bi = 1 /\ tries = 0 /\ ok = FALSE
    /\ vectors = <<>> /\ DIM = 0 /\ done = 0 /\ exitCode = NoExit /\ lastSleep = 0
    /\ retried = FALSE /\ snapMeta = PreviousMeta /\ snapBin = PreviousBin

LoaderInit ==
    /\ BIN = NoBin /\ lpc = "idle" /\ metaRead = NoMeta /\ loadReads = 0
    /\ loadRet = NoRet /\ lastObs = NoObs

InitBuild ==
    /\ metaFile = PreviousMeta /\ binFile = PreviousBin
    /\ LoaderInit /\ BuilderInit /\ ServeIdle

NextBuild ==
    \/ Build_ConfigError
    \/ Build_NoFacts
    \/ Build_Begin
    \/ EmbedSuccess
    \/ EmbedFail
    \/ SleepDone
    \/ LoopEnd
    \/ WriteBinOpen
    \/ WriteBinDone
    \/ WriteMetaOpen
    \/ WriteMetaDone
    \/ loadKBBin_enter
    \/ loadKBBin_readBin

SpecBuild == InitBuild /\ [][NextBuild]_vars

(***************************************************************************)
(* Properties of the builder and the loader (SpecBuild)                    *)
(***************************************************************************)

\* C2: a reader that reads the sidecar and then the binary buffer always
\* observes two files written by one and the same build, and never a file
\* that is only partly written.  (Stated as the claim states it; the builder
\* writes both files in place, so TLC finds a reader between the writes.)
C2_ReaderSeesOneBuild ==
    lastObs.seen => (lastObs.metaBuild = lastObs.binBuild /\ lastObs.whole)

\* a batch has failed on every one of its MaxTries attempts
Exhausted == tries = MaxTries /\ ~ok

\* C3: once a batch has failed on every attempt, neither index file differs
\* from what it was when the run started, the run's only next step is to exit,
\* and its exit code is 1 - however many earlier batches were embedded.
C3_ExhaustedRetriesAbortUnwritten ==
    /\ [](Exhausted => /\ metaFile = snapMeta /\ binFile = snapBin
                       /\ bpc \in {"sleep", "loopEnd", "exit"}
                       /\ (bpc = "exit" => exitCode = 1))
    /\ [][(Exhausted /\ bpc = "loopEnd" /\ bpc' # bpc) => (bpc' = "exit" /\ exitCode' = 1)]_vars

\* C3 witness: a run has exited with code 1 on its second batch, after the
\* first batch was embedded.
C3_Witness ==
    Exhausted /\ bpc = "exit" /\ exitCode = 1 /\ bi > 1 /\ Len(vectors) > 0

\* C4: when a run exits with code 0, the sidecar's count is the number of
\* facts, its items are the facts in order, the buffer holds count * dim
\* floats, and the i-th block of dim floats is the vector computed for the
\* i-th fact - whatever attempts failed on the way.
C4_CompletedBuildIsAligned ==
    (bpc = "exit" /\ exitCode = 0) =>
        /\ metaFile.full /\ binFile.full
        /\ metaFile.count = Len(facts)
        /\ metaFile.items = facts
        /\ metaFile.dim = ProviderDim
        /\ Len(binFile.floats) = metaFile.count * metaFile.dim
        /\ \A i \in 1..Len(facts) : \A j \in 1..metaFile.dim :
              /\ (i - 1) * metaFile.dim + j <= Len(binFile.floats)
              /\ binFile.floats[(i - 1) * metaFile.dim + j].of = facts[i].text
              /\ binFile.floats[(i - 1) * metaFile.dim + j] =
                     Normalize(RawEmbedding(facts[i].text))[j]

\* C4 witness: a run of two batches has exited with code 0 although some
\* attempt failed.
C4_Witness ==
    bpc = "exit" /\ exitCode = 0 /\ retried /\ NumBatches(facts) > 1

\* C5: once an index is cached, no step changes it, every later loadKBBin call
\* returns it and makes no readFileSync call.
C5_CachedLoadReadsNothing ==
    [][BIN.loaded =>
          /\ BIN' = BIN
          /\ lpc' = "idle"
          /\ (loadReads' # loadReads => loadReads' = 0)
          /\ (loadRet' # loadRet => loadRet' = Returned(BIN))]_vars

\* C5 witness: a call has returned the cached index without reading, after a
\* later build has replaced the files the index was loaded from.
C5_Witness ==
    /\ BIN.loaded /\ loadReads = 0 /\ loadRet = Returned(BIN)
    /\ metaFile.full /\ metaFile.items # BIN.items

(***************************************************************************)
(* Strings.  A string is a sequence of one-character strings; a message is *)
(* a sequence of words, the text being the words joined by single spaces.  *)
(* A word carries its characters and, when it has the shape D/M/YYYY or    *)
(* YYYY-MM-DD, the numbers parseInt reads from the groups of the date      *)
(* patterns.                                                               *)
(***************************************************************************)
Digits == <<"0", "1", "2", "3", "4", "5", "6", "7", "8", "9">>

IsDigit(c) == \E n \in 1..10 : Digits[n] = c

\* \d+ : a non-empty run of digits
AllDigits(s) == Len(s) > 0 /\ \A i \in 1..Len(s) : IsDigit(s[i])

\* String(n).padStart(2, "0") for 0 <= n <= 99
PadStart2(n) == IF n < 10 THEN <<"0", Digits[n + 1]>>
                ELSE <<Digits[(n \div 10) + 1], Digits[(n % 10) + 1]>>

\* `${yyyy}` for a four-digit year
Year4(y) == <<Digits[(y \div 1000) + 1], Digits[((y \div 100) % 10) + 1],
              Digits[((y \div 10) % 10) + 1], Digits[(y % 10) + 1]>>

\* String.prototype.toLowerCase on the letters the model uses in capitals
LowerChar(c) == CASE c = "G" -> "g" [] c = "C" -> "c" [] c = "B" -> "b" [] c = "D" -> "d"
                  [] OTHER -> c
toLowerCase(s) == [i \in 1..Len(s) |-> LowerChar(s[i])]

\* String.prototype.startsWith
startsWith(s, p) == Len(p) <= Len(s) /\ SubSeq(s, 1, Len(p)) = p

\* String.prototype.includes
includes(s, p) == \E i \in 0..(Len(s) - Len(p)) : SubSeq(s, i + 1, i + Len(p)) = p

Word(s) == [k |-> "w", s |-> s, dd |-> 0, mm |-> 0, yyyy |-> 0]
\* a word of the shape D/M/YYYY (the UK pattern's three groups, parsed)
DmyWord(dd, mm, yyyy) ==
    [k |-> "dmy", s |-> PadStart2(dd) \o <<"/">> \o PadStart2(mm) \o <<"/">> \o Year4(yyyy),
     dd |-> dd, mm |-> mm, yyyy |-> yyyy]

\* the text of a message: its words joined by single spaces
RECURSIVE Join(_)
Join(ws) == IF Len(ws) = 0 THEN <<>>
            ELSE IF Len(ws) = 1 THEN ws[1].s
            ELSE ws[1].s \o <<" ">> \o Join(Tail(ws))

W_restaurant == <<"r", "e", "s", "t", "a", "u", "r", "a", "n", "t">>
W_site       == <<"s", "i", "t", "e">>
W_key        == <<"k", "e", "y">>
W_today      == <<"t", "o", "d", "a", "y">>
W_opening    == <<"o", "p", "e", "n", "i", "n", "g">>
W_closing    == <<"c", "l", "o", "s", "i", "n", "g">>
W_grand      == <<"g", "r", "a", "n", "d">>
W_74         == <<"7", "4">>
W_1234       == <<"1", "2", "3", "4">>
W_999        == <<"9", "9", "9">>
W_am         == <<"a", "m">>
W_pm         == <<"p", "m">>

(***************************************************************************)
(* chat/route.ts: hint extraction                                          *)
(***************************************************************************)
NoStr == <<>>      \* undefined (no match); every real match is non-empty

\* userMsg.match(/\b(restaurant|site|key)\s*#?\s*(\d+)\b/i)?.[2]: the digits of the
\* first label word that is followed by a word of digits
RidFrom(msg, i) ==
    i < Len(msg) /\ toLowerCase(msg[i].s) \in {W_restaurant, W_site, W_key}
                 /\ AllDigits(msg[i + 1].s)
ridMatch(msg) ==
    IF \E i \in 1..Len(msg) : RidFrom(msg, i)
    THEN msg[(CHOOSE i \in 1..Len(msg) :
                 RidFrom(msg, i) /\ \A j \in 1..(i - 1) : ~RidFrom(msg, j)) + 1].s
    ELSE NoStr

\* userMsg.match(/restaurant\s+["“]?([^"\n\r]+?)["”]?(?:\s|$|\?|\.)/i)?.[1]?.trim()
\* ?.toLowerCase(): the lazy group stops at the first blank, so the match is the
\* word after the first "restaurant" that has a word after it
NameFrom(msg, i) == i < Len(msg) /\ toLowerCase(msg[i].s) = W_restaurant
nameMatch(msg) ==
    IF \E i \in 1..Len(msg) : NameFrom(msg, i)
    THEN toLowerCase(msg[(CHOOSE i \in 1..Len(msg) :
                 NameFrom(msg, i) /\ \A j \in 1..(i - 1) : ~NameFrom(msg, j)) + 1].s)
    ELSE NoStr

\* the ISO text `${yyyy}-${mm}-${dd}` with month and day padded to two digits
IsoText(y, m, d) == Year4(y) \o <<"-">> \o PadStart2(m) \o <<"-">> \o PadStart2(d)

\* chrono.parse(s, new Date(), {forwardDate: true})[0]?.date(): the model knows the
\* relative word "today"; any other text holds no date for chrono
chronoDate(msg, now) ==
    IF \E i \in 1..Len(msg) : toLowerCase(msg[i].s) = W_today THEN now ELSE <<>>

FirstOfKind(msg, kind) ==
    CHOOSE i \in 1..Len(msg) : msg[i].k = kind /\ \A j \in 1..(i - 1) : msg[j].k # kind

\* function toIsoDate(s): UK pattern, then ISO pattern, then chrono
toIsoDate(msg, now) ==
    LET uk == IF \E i \in 1..Len(msg) : msg[i].k = "dmy"
              THEN msg[FirstOfKind(msg, "dmy")] ELSE Word(<<>>)
        ukOk == uk.k = "dmy" /\ uk.dd >= 1 /\ uk.dd <= 31 /\ uk.mm >= 1 /\ uk.mm <= 12
        d == chronoDate(msg, now)
    IN  IF Len(msg) = 0 THEN NoStr
        ELSE IF ukOk THEN IsoText(uk.yyyy, uk.mm, uk.dd)
        ELSE IF \E i \in 1..Len(msg) : msg[i].k = "iso" THEN msg[FirstOfKind(msg, "iso")].s
        ELSE IF d = <<>> THEN NoStr
        ELSE IsoText(d[1], d[2], d[3])

\* const TYPE_ALIASES, in insertion order
TYPE_ALIASES ==
    <<[k |-> <<"o", "p", "e", "n", "i", "n", "g">>, t |-> "Opening_Check"],
       [k |-> <<"o", "p", "e", "n">>, t |-> "Opening_Check"],
       [k |-> <<"c", "l", "o", "s", "i", "n", "g">>, t |-> "Closing_Check"],
       [k |-> <<"f", "r", "i", "d", "g", "e", " ", "a", "m">>, t |-> "Fridge_AM"],
       [k |-> <<"f", "r", "i", "d", "g", "e", " ", "p", "m">>, t |-> "Fridge_PM"],
       [k |-> <<"c", "o", "l", "d", " ", "h", "o", "l", "d", "i", "n", "g">>, t |-> "Cold_Holding"],
       [k |-> <<"h", "o", "t", " ", "h", "o", "l", "d", "i", "n", "g">>, t |-> "Hot_Holding"],
       [k |-> <<"d", "a", "i", "l", "y", " ", "c", "l", "e", "a", "n", "i", "n", "g">>, t |-> "Daily_Cleaning"],
       [k |-> <<"w", "e", "e", "k", "l", "y", " ", "c", "l", "e", "a", "n", "i", "n", "g">>, t |-> "Weekly_Cleaning"],
       [k |-> <<"m", "o", "n", "t", "h", "l", "y", " ", "c", "l", "e", "a", "n", "i", "n", "g">>, t |-> "Monthly_Cleaning"],
       [k |-> <<"a", "d", "h", "o", "c", " ", "c", "l", "e", "a", "n", "i", "n", "g">>, t |-> "Adhoc_Cleaning"],
       [k |-> <<"d", "e", "f", "r", "o", "s", "t", "i", "n", "g">>, t |-> "Defrosting"],
       [k |-> <<"c", "o", "o", "k", "i", "n", "g">>, t |-> "Cooking"],
       [k |-> <<"c", "o", "o", "l", "i", "n", "g">>, t |-> "Cooling_of_Hot_Food"],
       [k |-> <<"r", "e", "h", "e", "a", "t", "i", "n", "g">>, t |-> "Re-heating"],
       [k |-> <<"r", "e", "-", "h", "e", "a", "t", "i", "n", "g">>, t |-> "Re-heating"]>>

RECURSIVE AliasFrom(_, _)
AliasFrom(text, n) ==
    IF n > Len(TYPE_ALIASES) THEN "undefined"
    ELSE IF includes(text, TYPE_ALIASES[n].k) THEN TYPE_ALIASES[n].t
    ELSE AliasFrom(text, n + 1)

\* /\bpm\b/ and /\bam\b/ on words of letters: a word equal to pm / am
HasWord(msg, w) == \E i \in 1..Len(msg) : toLowerCase(msg[i].s) = w

\* function detectType(userMsg) of chat/route.ts
detectType(msg) ==
    LET text == toLowerCase(Join(msg))
        fridge == \/ includes(text, <<"f", "r", "i", "d", "g", "e">>)
                  \/ includes(text, <<"f", "r", "d", "g", "e">>)
                  \/ includes(text, <<"f", "r", "i", "e", "d", "g", "e">>)
    IN  IF fridge /\ HasWord(msg, W_pm) THEN "Fridge_PM"
        ELSE IF fridge /\ HasWord(msg, W_am) THEN "Fridge_AM"
        ELSE AliasFrom(text, 1)

\* function detectType(text) of suggestions/route.ts: the alias pass alone
detectTypeSuggestions(msg) == AliasFrom(toLowerCase(Join(msg)), 1)

(***************************************************************************)
(* The index the server finds under data/ (SpecServe)                      *)
(***************************************************************************)
Item(row, type, key, name, date, sentence) ==
    [id   |-> <<row, type>>,
     text |-> sentence,
     meta |-> [type |-> type, restaurant_key |-> key, restaurant_name |-> name,
               date_iso |-> date]]

N_GrandCafe == <<"G", "r", "a", "n", "d", " ", "C", "a", "f", "e">>
N_BlueDoor  == <<"B", "l", "u", "e", " ", "D", "o", "o", "r">>

\* four facts as factsFromRow emits them; rows 1 and 2 are two CSV rows of the
\* same restaurant and day
Corpus ==
    <<Item(1, "Opening_Check", W_74,   N_GrandCafe, IsoText(2025, 9, 20), <<0, 1>>),
      Item(2, "Opening_Check", W_74,   N_GrandCafe, IsoText(2025, 9, 20), <<0, 2>>),
      Item(3, "Closing_Check", W_74,   N_GrandCafe, IsoText(2025, 9, 21), <<0, 3>>),
      Item(4, "Opening_Check", W_1234, N_BlueDoor,  IsoText(2025, 9, 21), <<0, 4>>)>>

\* the unit vector stored for the i-th fact: +-1 on one axis
CorpusVector(i) ==
    [j \in 1..ProviderDim |->
        [val |-> IF j = (i % ProviderDim) + 1 THEN (IF i > 2 THEN -1 ELSE 1) ELSE 0,
         of  |-> Corpus[i].text]]

GoodMeta == Sidecar(ProviderDim, Corpus, 0)
GoodBin  == [floats |-> Pack([i \in 1..Len(Corpus) |-> CorpusVector(i)], ProviderDim),
             build |-> 0, full |-> TRUE]
\* an index without a Fact: the sidecar {dim, count: 0, items: []} with a buffer of
\* no floats, which loadKBBin accepts (0 = 0 * dim)
EmptyMeta == Sidecar(ProviderDim, <<>>, 0)
EmptyBin  == [floats |-> <<>>, build |-> 0, full |-> TRUE]
\* kb.vec.bin cut short: what an interrupted writeFileSync leaves behind
ShortBin == [floats |-> SubSeq(GoodBin.floats, 1, Len(GoodBin.floats) - 1),
             build |-> 0, full |-> FALSE]

\* loadKBBin without "if (BIN) return BIN": every call reads the files again
loadKBBin_reread ==
    IF ~metaFile.full THEN [threw |-> TRUE, bin |-> NoBin, reads |-> 1, mismatch |-> FALSE]
    ELSE IF LengthMismatch(metaFile, binFile)
         THEN [threw |-> TRUE, bin |-> NoBin, reads |-> 2, mismatch |-> TRUE]
    ELSE [threw |-> FALSE, bin |-> KBBinOf(metaFile, binFile), reads |-> 2, mismatch |-> FALSE]

(***************************************************************************)
(* search.ts: loadKBBin as one synchronous call (the files do not change   *)
(* while a handler runs), and topKByCosine                                 *)
(***************************************************************************)
\* loadKBBin(): [threw, bin, reads, mismatch]
loadKBBin ==
    IF BIN.loaded THEN [threw |-> FALSE, bin |-> BIN, reads |-> 0, mismatch |-> FALSE]
    ELSE IF ~metaFile.full THEN [threw |-> TRUE, bin |-> NoBin, reads |-> 1, mismatch |-> FALSE]
    ELSE IF LengthMismatch(metaFile, binFile)
         THEN [threw |-> TRUE, bin |-> NoBin, reads |-> 2, mismatch |-> TRUE]
    ELSE [threw |-> FALSE, bin |-> KBBinOf(metaFile, binFile), reads |-> 2, mismatch |-> FALSE]

\* function cosineToUnit(query, unitVec, base, dim): dot / (sqrt(qnorm) + 1e-9), in
\* thousandths
RECURSIVE Dot(_, _, _, _)
Dot(query, vec, base, j) ==
    IF j = 0 THEN 0 ELSE query[j] * vec[base + j].val + Dot(query, vec, base, j - 1)
RECURSIVE QNorm(_, _)
QNorm(query, j) == IF j = 0 THEN 0 ELSE query[j] * query[j] + QNorm(query, j - 1)
cosineToUnit(query, vec, base, dim) ==
    LET n == Sqrt(QNorm(query, dim))
    IN  IF n = 0 THEN 0 ELSE (Dot(query, vec, base, dim) * 1000) \div n

\* index.get(it.id): the position of the last item of the index with that id, 0 if none
IndexOfId(all, id) ==
    IF \E i \in 1..Len(all) : all[i].id = id
    THEN CHOOSE i \in 1..Len(all) : all[i].id = id /\ \A j \in (i + 1)..Len(all) : all[j].id # id
    ELSE 0

\* the mutant of InsertByScore: an element goes in front of the elements of its score
RECURSIVE InsertByScore_unstable(_, _)
InsertByScore_unstable(x, sorted) ==
    IF Len(sorted) = 0 THEN <<x>>
    ELSE IF sorted[1].score > x.score
         THEN <<sorted[1]>> \o InsertByScore_unstable(x, Tail(sorted))
    ELSE <<x>> \o sorted

\* Array.prototype.sort((a,b) => b.score - a.score): stable, descending
RECURSIVE InsertByScore(_, _)
InsertByScore(x, sorted) ==
    IF Len(sorted) = 0 THEN <<x>>
    ELSE IF sorted[1].score >= x.score THEN <<sorted[1]>> \o InsertByScore(x, Tail(sorted))
    ELSE <<x>> \o sorted
RECURSIVE SortByScore(_)
SortByScore(xs) ==
    IF Len(xs) = 0 THEN <<>>
    ELSE InsertByScore(xs[Len(xs)], SortByScore(SubSeq(xs, 1, Len(xs) - 1)))

RECURSIVE Scored(_, _, _)
Scored(queryVec, items, bin) ==
    IF Len(items) = 0 THEN <<>>
    ELSE LET it == items[1]
             idx == IndexOfId(bin.items, it.id)
             rest == Scored(queryVec, Tail(items), bin)
         IN  IF idx = 0 THEN rest
             ELSE <<[item |-> it,
                     score |-> cosineToUnit(queryVec, bin.vec, (idx - 1) * bin.dim, bin.dim)]>>
                  \o rest

\* topKByCosine without ".slice(0, k)"
topKByCosine_unsliced(queryVec, items, k, bin) == SortByScore(Scored(queryVec, items, bin))

\* export function topKByCosine(queryVec, items, k): [item, score] in rank order
topKByCosine(queryVec, items, k, bin) ==
    LET sorted == SortByScore(Scored(queryVec, items, bin))
    IN  SubSeq(sorted, 1, Min(k, Len(sorted)))

(***************************************************************************)
(* chat/route.ts: prefilter and the exact-match scan                       *)
(***************************************************************************)
\* Array.prototype.filter is SelectSeq; the tests of the filters and of kb.find
KeyIs(x, rid)       == x.meta.restaurant_key = rid
NameHas(x, name)    == includes(toLowerCase(x.meta.restaurant_name), name)
DateStarts(x, date) == startsWith(x.meta.date_iso, date)
TypeIs(x, type)     == x.meta.type = type

\* function prefilter(kb, userMsg)
prefilter(kb, msg, now) ==
    LET rid       == ridMatch(msg)
        dateGuess == toIsoDate(msg, now)
        typeGuess == detectType(msg)
        nameGuess == nameMatch(msg)
        a == IF rid # NoStr THEN SelectSeq(kb, LAMBDA x : KeyIs(x, rid)) ELSE kb
        b == IF Len(nameGuess) >= 3 THEN SelectSeq(a, LAMBDA x : NameHas(x, nameGuess)) ELSE a
        c == IF dateGuess # NoStr THEN SelectSeq(b, LAMBDA x : DateStarts(x, dateGuess)) ELSE b
    IN  IF typeGuess # "undefined" THEN SelectSeq(c, LAMBDA x : TypeIs(x, typeGuess)) ELSE c

ExactTest(x, h) ==
    KeyIs(x, h.rid) /\ DateStarts(x, h.dateIso) /\ TypeIs(x, h.typeGuess)

\* the mutant of ExactFind: the scan keeps the last match instead of the first
ExactFind_last(kb, h) ==
    LET m == SelectSeq(kb, LAMBDA x : ExactTest(x, h))
    IN  IF Len(m) = 0 THEN <<>> ELSE <<m[Len(m)]>>

\* kb.find(x => ...): the first match in a one-element sequence, <<>> for undefined
ExactFind(kb, h) ==
    LET m == SelectSeq(kb, LAMBDA x : ExactTest(x, h))
    IN  IF Len(m) = 0 THEN <<>> ELSE <<m[1]>>

(***************************************************************************)
(* Requests.  The text of a message is a concatenation of at most          *)
(* MaxPhrases different phrases, taken in the order of the list Phrases.    *)
(***************************************************************************)
Phrases ==
    << <<Word(W_today)>>,
       <<Word(W_opening)>>,
       <<Word(W_restaurant), Word(W_grand)>>,
       <<Word(W_restaurant), Word(W_74)>>,
       <<Word(W_restaurant), Word(W_1234)>>,
       <<Word(W_restaurant), Word(W_999)>>,
       <<DmyWord(20, 9, 2025)>> >>

\* the lists of n different phrases
PhraseLists(n) ==
    {[i \in 1..n |-> Phrases[f[i]]] :
        f \in {g \in [1..n -> 1..Len(Phrases)] : \A i \in 1..(n - 1) : g[i] < g[i + 1]}}
RECURSIVE Flatten(_)
Flatten(l) == IF Len(l) = 0 THEN <<>> ELSE l[1] \o Flatten(Tail(l))
MessagesOfLen(n) == {Flatten(l) : l \in PhraseLists(n)}
Messages == UNION {MessagesOfLen(n) : n \in 0..MaxPhrases}

\* the bodies of POST /api/chat: not JSON, no turns, one user turn (a message of
\* Messages, or "site 1234 opening today"), and conversations of two turns of
\* either role
ChatBodies ==
    LET turnTexts == {Phrases[4] \o Phrases[2] \o Phrases[7], Phrases[5], Phrases[1]}
        site == <<Word(W_site), Word(W_1234)>> \o Phrases[2] \o Phrases[1]
    IN  {[parsable |-> FALSE, messages |-> <<>>], [parsable |-> TRUE, messages |-> <<>>]}
        \cup {[parsable |-> TRUE, messages |-> <<[role |-> "user", content |-> m]>>] :
                 m \in Messages \cup {site}}
        \cup {[parsable |-> TRUE, messages |-> <<[role |-> r1, content |-> m1],
                                                 [role |-> r2, content |-> m2]>>] :
                r1 \in {"user", "assistant"}, r2 \in {"user", "assistant"},
                m1 \in turnTexts, m2 \in turnTexts}

\* the vectors openai.embeddings.create returns for a query (<<>>: no data[0])
QueryVectors ==
    {[j \in 1..ProviderDim |-> IF j = 1 THEN 2 ELSE 0],
     [j \in 1..ProviderDim |-> IF j = 1 THEN 3 ELSE IF j = 2 THEN 4 ELSE 0],
     [j \in 1..ProviderDim |-> 0],
     <<>>}

Response(status, kind, used, nc) ==
    [status |-> status, kind |-> kind, used |-> used, narrowedCount |-> nc, suggestions |-> <<>>]

\* NextResponse.json({ error: ... }, { status })
ErrorResponse(status) == Response(status, "error", <<>>, 0)

NoLoad == [threw |-> FALSE, bin |-> BIN, reads |-> 0, mismatch |-> FALSE]

Ids(items) == [i \in 1..Len(items) |-> items[i].id]

\* body?.messages?.[body.messages.length - 1]?.content?.trim() ?? ""
LastContent(b) ==
    IF b.parsable /\ Len(b.messages) > 0 THEN b.messages[Len(b.messages)].content ELSE <<>>

HintsOf(msg, now) ==
    [rid |-> ridMatch(msg), dateIso |-> toIsoDate(msg, now), typeGuess |-> detectType(msg)]

AllHints(h) == h.rid # NoStr /\ h.dateIso # NoStr /\ h.typeGuess # "undefined"

\* POST of chat/route.ts after "await req.json()", with the locals msg (userMsg), ld
\* (the loadKB() call), h (rid, dateIso, typeGuess) and exact already computed
ChatSyncWith(b, msg, ld, h, exact) ==
    LET base == [userMsg |-> msg, hints |-> NoHints, raised |-> FALSE, load |-> NoLoad,
                 embCalls |-> 0, rpc |-> "done", resp |-> <<>>]
    IN  IF ~b.parsable
        THEN [base EXCEPT !.userMsg = <<>>, !.raised = TRUE, !.resp = <<ErrorResponse(500)>>]
        ELSE IF msg = <<>>
        THEN [base EXCEPT !.resp = <<ErrorResponse(400)>>]
        ELSE IF ~apiKey
        THEN [base EXCEPT !.hints = h, !.resp = <<ErrorResponse(500)>>]
        ELSE IF ld.threw
        THEN [base EXCEPT !.hints = h, !.raised = TRUE, !.load = ld,
                          !.resp = <<ErrorResponse(500)>>]
        ELSE IF exact # <<>>
        THEN [base EXCEPT !.hints = h, !.load = ld,
                          !.resp = <<Response(200, "exact", <<exact[1].id>>, 1)>>]
        ELSE [base EXCEPT !.hints = h, !.load = ld, !.embCalls = 1, !.rpc = "embedding"]

\* the fast path's scan: if (rid && dateIso && typeGuess) kb.find(...)
FastPath(kb, h) == IF AllHints(h) THEN ExactFind(kb, h) ELSE <<>>

\* POST of chat/route.ts from "await req.json()" to the first provider call
ChatSync(b) ==
    CHOOSE o \in {ChatSyncWith(b, msg, ld, h, FastPath(ld.bin.items, h)) :
                    msg \in {LastContent(b)}, ld \in {loadKBBin},
                    h \in {HintsOf(LastContent(b), today)}} : TRUE

ServeFrame == UNCHANGED <<buildVars, unitVars, lpc, metaRead, lastObs, apiKey, today>>

\* what a loadKBBin call made by a handler leaves in the module state and the ghosts
Loaded(ld) ==
    /\ BIN' = ld.bin
    /\ reqReads' = ld.reads
    /\ loadReads' = IF ld = NoLoad THEN loadReads ELSE ld.reads
    /\ loadRet' = IF ld = NoLoad THEN loadRet ELSE IF ld.threw THEN Threw ELSE Returned(ld.bin)
    /\ loadFailed' = (loadFailed \/ ld.mismatch)
    /\ loadsAfterFail' = (loadsAfterFail \/ (loadFailed /\ ld.reads > 0))

Answered(r) == Len(r) > 0 /\ r[Len(r)].status = 200

\* the handler of POST /api/chat run on body b, up to its first await on the
\* provider or to its response
ChatHandle(b) ==
    /\ \E o \in {ChatSync(b)} :
           /\ body' = b
           /\ route' = "chat"
           /\ userMsg' = o.userMsg
           /\ hints' = o.hints
           /\ raised' = o.raised
           /\ resp' = o.resp
           /\ rpc' = o.rpc
           /\ embCalls' = o.embCalls
           /\ Loaded(o.load)
           /\ servedAfterFail' = (servedAfterFail \/ (loadFailed /\ Answered(o.resp)))
    /\ binBefore' = BIN
    /\ chatCalls' = 0
    /\ narrowed' = <<>> /\ searchSpace' = <<>> /\ top' = <<>>
    /\ UNCHANGED diskVars /\ ServeFrame

\* a POST /api/chat request arrives
ChatPOST ==
    /\ rpc = "idle"
    /\ \E b \in ChatBodies : ChatHandle(b)

\* the client sends the body of the request just answered once more
ChatResend ==
    /\ rpc = "done" /\ route = "chat"
    /\ ChatHandle(body)

\* the mutant of ChatEmbeddingThrows: the rejection is not caught, no response is
\* sent and the process is gone
ChatEmbeddingThrows_uncaught ==
    /\ rpc = "embedding"
    /\ raised' = TRUE
    /\ rpc' = "crashed"
    /\ UNCHANGED <<resp, route, body, userMsg, hints, narrowed, searchSpace, top, reqReads,
                   embCalls, chatCalls, binBefore, loadFailed, loadsAfterFail, servedAfterFail,
                   BIN, loadReads, loadRet>>
    /\ UNCHANGED diskVars /\ ServeFrame

\* await openai.embeddings.create(...) rejects: catch -> { error }, status 500
ChatEmbeddingThrows ==
    /\ rpc = "embedding"
    /\ raised' = TRUE
    /\ resp' = Append(resp, ErrorResponse(500))
    /\ rpc' = "done"
    /\ UNCHANGED <<route, body, userMsg, hints, narrowed, searchSpace, top, reqReads,
                   embCalls, chatCalls, binBefore, loadFailed, loadsAfterFail, servedAfterFail,
                   BIN, loadReads, loadRet>>
    /\ UNCHANGED diskVars /\ ServeFrame

\* the mutant of SearchSpace: an empty narrowed set is relaxed to the key filter alone
SearchSpace_relaxed(kb, msg, now) ==
    LET n == prefilter(kb, msg, now)
        rid == ridMatch(msg)
    IN  IF Len(n) > 0 THEN n
        ELSE IF rid # NoStr /\ Len(SelectSeq(kb, LAMBDA x : KeyIs(x, rid))) > 0 THEN SelectSeq(kb, LAMBDA x : KeyIs(x, rid))
        ELSE kb

\* const searchSpace = narrowed.length ? narrowed : kb
SearchSpace(kb, msg, now) ==
    LET n == prefilter(kb, msg, now)
    IN  IF Len(n) > 0 THEN n ELSE kb

\* the mutant of NoResults: the handler never takes the no-match return
NoResults_never(tp) == FALSE

\* if (top.length === 0)
NoResults(tp) == Len(tp) = 0

\* the embedding arrives: "Embedding failed" without a vector; otherwise prefilter,
\* ranking, the no-match answer or the completion call
ChatEmbeddingReturns ==
    /\ rpc = "embedding"
    /\ \E qvec \in QueryVectors :
         IF qvec = <<>>
         THEN /\ resp' = Append(resp, ErrorResponse(500))
              /\ rpc' = "done"
              /\ UNCHANGED <<narrowed, searchSpace, top, chatCalls, servedAfterFail>>
         ELSE \E nr \in {prefilter(BIN.items, userMsg, today)} :
              \E sp \in {SearchSpace(BIN.items, userMsg, today)} :
              \E tp \in {topKByCosine(qvec, sp, TopK, BIN)} :
                  /\ narrowed' = nr
                  /\ searchSpace' = sp
                  /\ top' = tp
                  /\ IF NoResults(tp)
                       THEN /\ resp' = Append(resp, Response(200, "nomatch", <<>>, Len(nr)))
                            /\ rpc' = "done"
                            /\ servedAfterFail' = (servedAfterFail \/ loadFailed)
                            /\ UNCHANGED chatCalls
                       ELSE /\ chatCalls' = chatCalls + 1
                            /\ rpc' = "completing"
                            /\ UNCHANGED <<resp, servedAfterFail>>
    /\ UNCHANGED <<route, body, userMsg, hints, raised, reqReads, embCalls, binBefore,
                   loadFailed, loadsAfterFail, BIN, loadReads, loadRet>>
    /\ UNCHANGED diskVars /\ ServeFrame

\* ChatCompletionThrows with a handler that calls the provider again after a rejection
ChatCompletionThrows_retry ==
    /\ rpc = "completing"
    /\ IF chatCalls < 2
         THEN /\ chatCalls' = chatCalls + 1
              /\ UNCHANGED <<raised, resp, rpc>>
         ELSE /\ raised' = TRUE
              /\ resp' = Append(resp, ErrorResponse(500))
              /\ rpc' = "done"
              /\ UNCHANGED chatCalls
    /\ UNCHANGED <<route, body, userMsg, hints, narrowed, searchSpace, top, reqReads,
                   embCalls, binBefore, loadFailed, loadsAfterFail, servedAfterFail,
                   BIN, loadReads, loadRet>>
    /\ UNCHANGED diskVars /\ ServeFrame

\* await openai.chat.completions.create(...) rejects: catch -> { error }, status 500
ChatCompletionThrows ==
    /\ rpc = "completing"
    /\ raised' = TRUE
    /\ resp' = Append(resp, ErrorResponse(500))
    /\ rpc' = "done"
    /\ UNCHANGED <<route, body, userMsg, hints, narrowed, searchSpace, top, reqReads,
                   embCalls, chatCalls, binBefore, loadFailed, loadsAfterFail, servedAfterFail,
                   BIN, loadReads, loadRet>>
    /\ UNCHANGED diskVars /\ ServeFrame

\* the completion arrives: { answer, used: top.map(t => t.id), narrowedCount }
ChatCompletionReturns ==
    /\ rpc = "completing"
    /\ resp' = Append(resp, Response(200, "answer", [i \in 1..Len(top) |-> top[i].item.id],
                                     Len(narrowed)))
    /\ rpc' = "done"
    /\ servedAfterFail' = (servedAfterFail \/ loadFailed)
    /\ UNCHANGED <<route, body, userMsg, hints, raised, narrowed, searchSpace, top, reqReads,
                   embCalls, chatCalls, binBefore, loadFailed, loadsAfterFail,
                   BIN, loadReads, loadRet>>
    /\ UNCHANGED diskVars /\ ServeFrame

(***************************************************************************)
(* suggestions/route.ts                                                    *)
(***************************************************************************)
\* function hasDateTypeKey(it): every modelled item has the three fields as strings
hasDateTypeKey(it, unused) == Len(it.meta.date_iso) >= 10

\* function toDDMMYYYY(iso): slice(0, 10).split("-") -> `${d}/${m}/${y}`
toDDMMYYYY(iso) ==
    IF Len(iso) < 10 THEN iso
    ELSE SubSeq(iso, 9, 10) \o <<"/">> \o SubSeq(iso, 6, 7) \o <<"/">> \o SubSeq(iso, 1, 4)

\* the prompt string `${humanType(type)} for restaurant ${key} on ${toDDMMYYYY(date)}`,
\* as its three interpolated parts (humanType only swaps "_" for " ")
PromptOf(it) ==
    [type |-> it.meta.type, key |-> it.meta.restaurant_key, date |-> toDDMMYYYY(it.meta.date_iso)]

\* items.filter(hasDateTypeKey).sort((a, b) => a.meta.date_iso < b.meta.date_iso ? 1 : -1):
\* the comparator never returns 0, so the order of items of one date is whatever
\* the engine's sort makes of it; every arrangement with the dates non-increasing
DateLess(a, b) ==
    \E i \in 1..Min(Len(a), Len(b)) + 1 :
        /\ \A j \in 1..(i - 1) : a[j] = b[j]
        /\ IF i > Len(a) THEN i <= Len(b)
           ELSE i <= Len(b) /\ \E m, n \in 1..10 : Digits[m] = a[i] /\ Digits[n] = b[i] /\ m < n
Arrangements(items) ==
    LET n == Len(items)
        perms == {f \in [1..n -> 1..n] : \A i, j \in 1..n : i # j => f[i] # f[j]}
    IN  {[i \in 1..n |-> items[f[i]]] : f \in
            {g \in perms : \A i \in 1..(n - 1) :
                ~DateLess(items[g[i]].meta.date_iso, items[g[i + 1]].meta.date_iso)}}

\* addFrom without the seenPrompts test
addFrom_unseen(st, dated, idx) ==
    [seen |-> st.seen \cup {PromptOf(dated[idx])}, out |-> Append(st.out, PromptOf(dated[idx]))]

\* const addFrom = (idx) => ...: st = [seen, out]
addFrom(st, dated, idx) ==
    LET prompt == PromptOf(dated[idx])
    IN  IF prompt \in st.seen THEN st
        ELSE [seen |-> st.seen \cup {prompt}, out |-> Append(st.out, prompt)]

\* dated.findIndex(it => it.meta.type === t), 0 for -1
FindIndexOfType(dated, t) ==
    IF \E i \in 1..Len(dated) : dated[i].meta.type = t
    THEN CHOOSE i \in 1..Len(dated) :
            dated[i].meta.type = t /\ \A j \in 1..(i - 1) : dated[j].meta.type # t
    ELSE 0

\* 1) for (const t of preferredTypes) { ...; if (out.length >= limit) break; }
RECURSIVE PreferredLoop(_, _, _, _, _)
PreferredLoop(st, dated, preferredTypes, n, limit) ==
    IF n > Len(preferredTypes) THEN st
    ELSE LET idx == FindIndexOfType(dated, preferredTypes[n])
         IN  IF idx = 0 THEN PreferredLoop(st, dated, preferredTypes, n + 1, limit)
             ELSE LET st2 == addFrom(st, dated, idx)
                  IN  IF Len(st2.out) >= limit THEN st2
                      ELSE PreferredLoop(st2, dated, preferredTypes, n + 1, limit)

\* 2) for (let i = 0; i < dated.length && out.length < limit; i++) addFrom(i)
RECURSIVE FillLoop(_, _, _, _)
FillLoop(st, dated, i, limit) ==
    IF i > Len(dated) \/ Len(st.out) >= limit THEN st
    ELSE FillLoop(addFrom(st, dated, i), dated, i + 1, limit)

\* the base set: type, then id, then name if no id; the whole kb if that is empty
SuggestionBase(kb, text) ==
    LET rid       == ridMatch(text)
        name      == nameMatch(text)
        typeGuess == detectTypeSuggestions(text)
        a == IF typeGuess # "undefined" THEN SelectSeq(kb, LAMBDA x : TypeIs(x, typeGuess)) ELSE kb
        b == IF rid # NoStr THEN SelectSeq(a, LAMBDA x : KeyIs(x, rid)) ELSE a
        c == IF rid = NoStr /\ Len(name) >= 3 THEN SelectSeq(b, LAMBDA x : NameHas(x, name)) ELSE b
    IN  IF Len(c) = 0 THEN kb ELSE c

Suggest(dated, preferredTypes, limit) ==
    FillLoop(PreferredLoop([seen |-> {}, out |-> <<>>], dated, preferredTypes, 1, limit),
             dated, 1, limit).out

\* the bodies of POST /api/suggestions; limit DefaultLimit is also what a body
\* without a limit gets
PreferredLists ==
    {<<>>, <<"Opening_Check">>, <<"Closing_Check", "Opening_Check">>,
     <<"Opening_Check", "Opening_Check">>}
SuggestionTexts == UNION {MessagesOfLen(n) : n \in 0..1}
SuggestionBodies ==
    {[parsable |-> FALSE, lastUserText |-> <<>>, preferredTypes |-> <<>>, limit |-> DefaultLimit]}
    \cup {[parsable |-> TRUE, lastUserText |-> t, preferredTypes |-> p, limit |-> l] :
            t \in SuggestionTexts, p \in PreferredLists, l \in {0, 1, DefaultLimit}}

\* POST of suggestions/route.ts: loadKB(), await req.json(), the two loops
SuggestionsPOST ==
    /\ rpc = "idle"
    /\ \E b \in SuggestionBodies :
         \E ld \in {loadKBBin} :
             /\ body' = b
             /\ userMsg' = b.lastUserText
             /\ Loaded(ld)
             /\ IF ld.threw \/ ~b.parsable
                  THEN /\ raised' = TRUE
                       /\ resp' = <<[ErrorResponse(500) EXCEPT !.kind = "suggestions-error"]>>
                       /\ UNCHANGED servedAfterFail
                  ELSE /\ raised' = FALSE
                       /\ \E dated \in Arrangements(SelectSeq(
                                 SuggestionBase(ld.bin.items, b.lastUserText),
                                 LAMBDA x : hasDateTypeKey(x, 0))) :
                            resp' = <<[Response(200, "suggestions", <<>>, 0) EXCEPT
                                        !.suggestions = Suggest(dated, b.preferredTypes, b.limit)]>>
                       /\ servedAfterFail' = (servedAfterFail \/ loadFailed)
    /\ route' = "suggestions"
    /\ rpc' = "done"
    /\ hints' = NoHints
    /\ binBefore' = BIN
    /\ embCalls' = 0 /\ chatCalls' = 0
    /\ narrowed' = <<>> /\ searchSpace' = <<>> /\ top' = <<>>
    /\ UNCHANGED diskVars /\ ServeFrame

(***************************************************************************)
(* The environment of the server process                                   *)
(***************************************************************************)
\* the calendar day changes between two handler steps
Midnight ==
    /\ today = <<2025, 9, 20>>
    /\ today' = <<2025, 9, 21>>
    /\ UNCHANGED <<diskVars, loaderVars, buildVars, unitVars>>
    /\ UNCHANGED <<apiKey, rpc, route, body, userMsg, narrowed, searchSpace, top, resp, raised,
                   reqReads, embCalls, chatCalls, binBefore, loadFailed, loadsAfterFail,
                   servedAfterFail, hints>>

\* the response is on its way and the handler's locals are gone
Finish ==
    /\ rpc = "done"
    /\ rpc' = "idle" /\ route' = "none" /\ body' = NoBody /\ userMsg' = <<>>
    /\ narrowed' = <<>> /\ searchSpace' = <<>> /\ top' = <<>>
    /\ resp' = <<>> /\ raised' = FALSE
    /\ reqReads' = 0 /\ embCalls' = 0 /\ chatCalls' = 0
    /\ binBefore' = BIN /\ hints' = NoHints
    /\ UNCHANGED <<loadFailed, loadsAfterFail, servedAfterFail, apiKey, today>>
    /\ UNCHANGED <<diskVars, loaderVars, buildVars, unitVars>>

\* a run of the builder completes and leaves both files whole (WriteBinDone and
\* WriteMetaDone of a run that exits with 0)
RebuildIndex ==
    /\ binFile # GoodBin
    /\ metaFile' = GoodMeta /\ binFile' = GoodBin
    /\ UNCHANGED <<loaderVars, buildVars, serveVars, unitVars>>

InitServe ==
    /\ \E disk \in {<<GoodMeta, GoodBin>>, <<GoodMeta, ShortBin>>, <<EmptyMeta, EmptyBin>>} :
          metaFile = disk[1] /\ binFile = disk[2]
    /\ LoaderInit /\ BuilderInit
    /\ apiKey \in BOOLEAN /\ today = <<2025, 9, 20>>
    /\ rpc = "idle" /\ route = "none" /\ body = NoBody /\ userMsg = <<>>
    /\ narrowed = <<>> /\ searchSpace = <<>> /\ top = <<>>
    /\ resp = <<>> /\ raised = FALSE
    /\ reqReads = 0 /\ embCalls = 0 /\ chatCalls = 0
    /\ binBefore = NoBin
    /\ loadFailed = FALSE /\ loadsAfterFail = FALSE /\ servedAfterFail = FALSE
    /\ hints = NoHints
    /\ call = NoCall

NextServe ==
    \/ ChatPOST
    \/ ChatResend
    \/ ChatEmbeddingThrows
    \/ ChatEmbeddingReturns
    \/ ChatCompletionThrows
    \/ ChatCompletionReturns
    \/ SuggestionsPOST
    \/ Finish
    \/ Midnight
    \/ RebuildIndex

SpecServe == InitServe /\ [][NextServe]_vars

(***************************************************************************)
(* Properties of SpecServe                                                 *)
(***************************************************************************)
\* the Facts of the loaded index that carry the three hints h
Matching(h) == SelectSeq(BIN.items, LAMBDA x : ExactTest(x, h))

\* a chat request is being handled, or has just been answered, whose query holds a
\* restaurant id, a date and a check type that some Fact of the index carries
ExactQuery ==
    /\ route = "chat" /\ rpc # "idle"
    /\ AllHints(hints)
    /\ Len(Matching(hints)) > 0

\* the request ended with the one answer of the fast path, naming the Fact id
ExactAnswer(id) ==
    /\ rpc = "done"
    /\ resp = <<Response(200, "exact", <<id>>, 1)>>
    /\ embCalls = 0 /\ chatCalls = 0

\* the step is a second handling of the body that was just answered
Repeated == rpc = "done" /\ route = "chat" /\ route' = "chat" /\ body' = body /\ resp' # <<>>

\* C1 as stated: every query that holds an id, a date and a type that a Fact
\* carries is answered with used = [id of such a Fact], without an embedding call
\* and without a completion call, and the same query sent again against the same
\* index gets the same Fact id.
C1_ExactQueryAlwaysAnswered ==
    /\ [](ExactQuery => \E i \in 1..Len(Matching(hints)) : ExactAnswer(Matching(hints)[i].id))
    /\ [][(ExactQuery /\ Repeated /\ metaFile' = metaFile /\ binFile' = binFile)
            => (Len(resp') = 1 /\ resp'[1].used = resp[1].used)]_vars

\* C1, amended: when OPENAI_API_KEY is set and the index has loaded, such a query is
\* answered with used = [id of the first such Fact in index order], without an
\* embedding call and without a completion call; and a second handling of the query
\* that extracts the same three hints against the same index gets the same answer.
C1_FastPathDeterministic ==
    /\ []((ExactQuery /\ apiKey /\ BIN.loaded) => ExactAnswer(Matching(hints)[1].id))
    /\ [][(ExactQuery /\ apiKey /\ BIN.loaded /\ Repeated /\ hints' = hints /\ BIN' = BIN)
            => resp' = resp]_vars

\* a query with the hints of two matching Facts is answered with the first one, and
\* the index then holds a later Fact with the same three hints
C1_Witness ==
    /\ ExactQuery /\ apiKey /\ BIN.loaded
    /\ Len(Matching(hints)) > 1
    /\ ExactAnswer(Matching(hints)[1].id)

\* C6 as stated: once a load has found the buffer's float count different from
\* count x dim, no index is cached, the load is never attempted again and no chat or
\* suggestion request is served from then on.
C6_MismatchHaltsServing ==
    loadFailed => (~BIN.loaded /\ ~loadsAfterFail /\ ~servedAfterFail)

\* the process is there: idle, inside a handler, or with a handler just returned
Alive == rpc \in {"idle", "embedding", "completing", "done"}

\* C7: a request that is being handled has no response yet, a request that has ended
\* has exactly one; when an error was raised while handling it (the body does not
\* parse, the index does not load, the provider rejects), that one response is the
\* { error } body with status 500; and the process goes on: it is never gone, the
\* ended request can be left, and an idle process takes a chat and a suggestion request.
C7_OneResponsePerRequest ==
    /\ Alive
    /\ rpc \in {"idle", "embedding", "completing"} => resp = <<>>
    /\ rpc = "done" => /\ Len(resp) = 1
                       /\ raised => /\ resp[1].status = 500
                                    /\ resp[1].kind \in {"error", "suggestions-error"}
                       /\ ENABLED Finish
    /\ rpc = "idle" => (ENABLED ChatPOST) /\ (ENABLED SuggestionsPOST)

\* the provider rejected the embedding call of a chat request, the request ended in
\* the one 500 response, and this in a process that had failed to load the index
\* for an earlier request and has served a request since
C7_Witness ==
    /\ rpc = "done" /\ route = "chat" /\ raised /\ embCalls = 1
    /\ resp = <<ErrorResponse(500)>>
    /\ loadFailed /\ servedAfterFail

\* C8 as stated: a chat request whose body does not parse, or whose last turn is
\* empty after trimming, ends in a 4xx response, without reading the index files,
\* without a provider call and with the cached index as it was.
C8_MalformedIsClientError ==
    (route = "chat" /\ rpc = "done" /\ LastContent(body) = <<>>)
        => /\ Len(resp) = 1 /\ resp[1].status \in 400..499
           /\ reqReads = 0 /\ embCalls = 0 /\ chatCalls = 0
           /\ BIN = binBefore

\* the step in which the handler of a chat request narrows the corpus and ranks
RankingStep ==
    /\ rpc = "embedding"
    /\ \/ rpc' = "completing"
       \/ resp' # <<>> /\ resp'[Len(resp')].kind = "nomatch"

\* the Facts of kb that satisfy every hint the message holds, the name only when the
\* message holds no id
HintFilter(kb, msg, now) ==
    LET rid       == ridMatch(msg)
        dateGuess == toIsoDate(msg, now)
        typeGuess == detectType(msg)
        nameGuess == nameMatch(msg)
        a == IF rid # NoStr THEN SelectSeq(kb, LAMBDA x : KeyIs(x, rid)) ELSE kb
        b == IF rid = NoStr /\ Len(nameGuess) >= 3 THEN SelectSeq(a, LAMBDA x : NameHas(x, nameGuess)) ELSE a
        c == IF dateGuess # NoStr THEN SelectSeq(b, LAMBDA x : DateStarts(x, dateGuess)) ELSE b
    IN  IF typeGuess # "undefined" THEN SelectSeq(c, LAMBDA x : TypeIs(x, typeGuess)) ELSE c

\* C9 as stated: the narrowed set of a chat request is exactly the Facts that satisfy
\* every hint the message holds: the id if there is one, the name substring only if
\* there is no id, the date prefix if there is a date, the type if there is a type.
C9_NarrowedIsEveryPresentHint ==
    [][RankingStep => narrowed' = HintFilter(BIN.items, userMsg, today)]_vars

\* C10: the pool a chat request ranks is its narrowed set when that set has a Fact,
\* and the whole corpus of the loaded index when it has none; never anything between.
C10_PoolIsNarrowedOrWhole ==
    [][RankingStep => searchSpace' = IF Len(narrowed') > 0 THEN narrowed' ELSE BIN.items]_vars

\* the message names a restaurant id that Facts of the index carry, the narrowed set
\* is empty all the same, and the pool ranked is the whole corpus
C10_Witness ==
    /\ rpc = "completing" /\ route = "chat"
    /\ hints.rid # NoStr /\ Len(SelectSeq(BIN.items, LAMBDA x : KeyIs(x, hints.rid))) > 0
    /\ Len(narrowed) = 0
    /\ searchSpace = BIN.items /\ Len(searchSpace) = Len(Corpus)
    /\ Len(top) > 0

\* C12: when the ranking of a chat request returns no candidate, the request ends
\* there with the fixed no-match answer, used = [] and no completion call; and every
\* 200 response of a chat request other than that answer names at least one Fact.
C12_NoResultsIsNoMatch ==
    /\ [][(RankingStep /\ Len(top') = 0)
            => /\ rpc' = "done" /\ chatCalls' = 0
               /\ resp' = <<Response(200, "nomatch", <<>>, Len(narrowed'))>>]_vars
    /\ []((route = "chat" /\ rpc = "done" /\ resp[1].status = 200 /\ resp[1].kind # "nomatch")
            => Len(resp[1].used) > 0)

\* a chat request against a loaded index without a Fact has ended with the no-match
\* answer, after one embedding call and without a completion call
C12_Witness ==
    /\ route = "chat" /\ rpc = "done" /\ BIN.loaded /\ Len(BIN.items) = 0
    /\ embCalls = 1 /\ chatCalls = 0 /\ Len(top) = 0
    /\ resp = <<Response(200, "nomatch", <<>>, 0)>>

\* the message names a restaurant id that no Fact of the loaded, non-empty index has
UnknownRestaurant ==
    /\ hints.rid # NoStr
    /\ Len(BIN.items) > 0
    /\ \A i \in 1..Len(BIN.items) : ~KeyIs(BIN.items[i], hints.rid)

\* C13 as stated: a chat request naming a restaurant that no Fact has, once ranked,
\* has an empty narrowed set and the whole corpus as its pool, and when no ranked
\* candidate has a positive similarity (all are below any relevance level) its
\* response has used = [].
C13_UnknownRestaurantUsesNothing ==
    (route = "chat" /\ rpc = "done" /\ UnknownRestaurant /\ Len(searchSpace) > 0
        /\ resp[1].status = 200)
        => /\ Len(narrowed) = 0
           /\ searchSpace = BIN.items
           /\ (\A i \in 1..Len(top) : top[i].score <= 0) => resp[1].used = <<>>

(***************************************************************************)
(* SpecUnit: the functions of the sources that take everything they use    *)
(* as arguments, each applied on its own to arguments from bounded sets    *)
(***************************************************************************)
UnitFrame == UNCHANGED <<diskVars, loaderVars, buildVars, serveVars>>

\* the index topKByCosine finds loaded
UnitIndex == KBBinOf(GoodMeta, GoodBin)

\* the pools a caller hands to topKByCosine: Facts of the index, in index order
Pools == {SelectSeq(Corpus, LAMBDA x : x.id \in S) : S \in SUBSET {Corpus[i].id : i \in 1..Len(Corpus)}}

\* the third argument: 12 at the call site of chat/route.ts, smaller values to have
\* candidates left out
Ks == {1, 2, TopK}

\* topKByCosine(queryVec, items, k) applied on its own
Call_topKByCosine ==
    /\ call = NoCall
    /\ \E q \in QueryVectors \ {<<>>}, items \in Pools, k \in Ks :
          call' = [fn |-> "topKByCosine", args |-> [queryVec |-> q, items |-> items, k |-> k],
                   out |-> topKByCosine(q, items, k, UnitIndex)]
    /\ UnitFrame

\* function tailFor({checks, completed, passed, compPct, passPct}): the sentence as
\* [tier, parts], parts being the counts the sentence spells out
tailFor(st) ==
    LET notCompleted == IF st.checks - st.completed > 0 THEN st.checks - st.completed ELSE 0
        failed == IF st.completed - st.passed > 0 THEN st.completed - st.passed ELSE 0
        parts == (IF notCompleted > 0 THEN <<[k |-> "not completed", n |-> notCompleted]>> ELSE <<>>)
                 \o (IF failed > 0 THEN <<[k |-> "failed", n |-> failed]>> ELSE <<>>)
    IN  IF st.checks = 0 THEN [tier |-> "no checks", parts |-> <<>>]
        ELSE IF st.compPct = 100 /\ st.passPct = 100 THEN [tier |-> "well done", parts |-> <<>>]
        ELSE IF st.passPct = 100 /\ st.compPct >= 90 /\ notCompleted > 0
             THEN [tier |-> "all passed", parts |-> <<[k |-> "remain", n |-> notCompleted]>>]
        ELSE IF st.compPct = 100 /\ st.passPct >= 95 /\ failed > 0
             THEN [tier |-> "great completion", parts |-> <<[k |-> "failed", n |-> failed]>>]
        ELSE IF st.passPct >= 90 THEN [tier |-> "some gaps", parts |-> parts]
        ELSE IF st.passPct >= 70 THEN [tier |-> "noticeable issues", parts |-> parts]
        ELSE [tier |-> "several items", parts |-> parts]

\* tailFor applied on its own: the five numbers as parseStatsFromText can return
\* them, i.e. any five numerals of a sentence
Call_tailFor ==
    /\ call = NoCall
    /\ \E st \in [checks : 0..3, completed : 0..3, passed : 0..3,
                  compPct : {0, 69, 89, 90, 100}, passPct : {0, 69, 70, 89, 90, 94, 95, 100}] :
          call' = [fn |-> "tailFor", args |-> st, out |-> tailFor(st)]
    /\ UnitFrame

\* A fact's sentence, where the count pattern reads it, as a list of tokens [k, n]
\* separated by single blanks: "w" a word, "sp" further white space, "id" a tag
\* "[id:...]", and the five count fields with their numeral n, n = -1 standing for a
\* numeral that is not a run of digits (2.5, -5, 0.95)
Tok(k, n) == [k |-> k, n |-> n]

CountFields == <<"checks", "completed", "passed", "comp", "pass">>

\* function parseStatsFromText(text): <<>> is null
parseStatsFromText(text) ==
    LET hits == {i \in 1..(Len(text) - 4) :
                    \A j \in 1..5 : text[i + j - 1].k = CountFields[j] /\ text[i + j - 1].n >= 0}
    IN  IF hits = {} THEN <<>>
        ELSE LET i == CHOOSE h \in hits : \A g \in hits : h <= g
             IN  <<[checks |-> text[i].n, completed |-> text[i + 1].n, passed |-> text[i + 2].n,
                    compPct |-> text[i + 3].n, passPct |-> text[i + 4].n]>>

\* text.replace(/\s*\[id:[^\]]+\]/gi, ""): every tag goes, with the white space before it
RECURSIVE StripIdTags(_)
StripIdTags(text) ==
    IF text = <<>> THEN <<>>
    ELSE LET rest == StripIdTags(Tail(text))
             tagNext == \E j \in 1..Len(text) :
                           /\ text[j].k = "id"
                           /\ \A m \in 1..(j - 1) : text[m].k = "sp"
         IN  IF tagNext THEN rest ELSE <<Head(text)>> \o rest

\* String.prototype.trim on a token list
TrimText(text) ==
    LET ink == {i \in 1..Len(text) : text[i].k # "sp"}
    IN  IF ink = {} THEN <<>>
        ELSE SubSeq(text, CHOOSE i \in ink : \A j \in ink : i <= j,
                          CHOOSE i \in ink : \A j \in ink : i >= j)

\* the fallback of summariseExact returning item.text untouched
summariseExact_raw(item) ==
    IF parseStatsFromText(item.text) = <<>>
    THEN [kind |-> "text", text |-> item.text, tail |-> <<>>]
    ELSE [kind |-> "summary", text |-> <<>>, tail |-> tailFor(parseStatsFromText(item.text)[1])]

\* function summariseExact(item): the fallback text, or the base sentence (a fixed
\* function of the meta and the five numbers) followed by tailFor's sentence
summariseExact(item) ==
    LET stats == parseStatsFromText(item.text)
    IN  IF stats = <<>>
        THEN [kind |-> "text", text |-> TrimText(StripIdTags(item.text)), tail |-> <<>>]
        ELSE [kind |-> "summary", text |-> <<>>, tail |-> tailFor(stats[1])]

\* the sentences tried: a word, then a count part (well-formed, with fractional
\* percentages as build-knowledge.mjs writes them, with a fractional count, or none),
\* with or without a tag and outer white space
UnitTexts ==
    LET counts(c, d, q, cp, pp) ==
            <<Tok("checks", c), Tok("completed", d), Tok("passed", q), Tok("comp", cp), Tok("pass", pp)>>
    IN  {pre \o <<Tok("w", 0)>> \o mid \o tag \o post :
            pre \in {<<>>, <<Tok("sp", 0)>>},
            mid \in {counts(2, 2, 2, 100, 100), counts(3, 2, 1, 67, 50), counts(3, 2, 1, -1, -1),
                     counts(-1, 2, 1, 67, 50), <<>>},
            tag \in {<<>>, <<Tok("id", 0)>>, <<Tok("sp", 0), Tok("id", 0), Tok("w", 0)>>},
            post \in {<<>>, <<Tok("sp", 0)>>}}

\* the fast path's reply for the exact fact item, chat/route.ts lines 225-229
Call_summariseExact ==
    /\ call = NoCall
    /\ \E text \in UnitTexts :
         \E item \in {Item(1, "Opening_Check", W_74, N_GrandCafe, IsoText(2025, 9, 20), text)} :
            call' = [fn |-> "summariseExact", args |-> item,
                     out |-> [status |-> 200, answer |-> summariseExact(item),
                              used |-> <<item.id>>, narrowedCount |-> 1]]
    /\ UnitFrame

\* function toISO(dmy) of build-knowledge-bin.mjs, on the characters of the cell:
\* /^(\d{1,2})[\/\-](\d{1,2})[\/\-](\d{4})$/ with groups of a, b and 4 characters
toISO(dmy) ==
    LET m == {g \in {1, 2} \X {1, 2} :
                /\ Len(dmy) = g[1] + g[2] + 6
                /\ AllDigits(SubSeq(dmy, 1, g[1]))
                /\ dmy[g[1] + 1] \in {"/", "-"}
                /\ AllDigits(SubSeq(dmy, g[1] + 2, g[1] + g[2] + 1))
                /\ dmy[g[1] + g[2] + 2] \in {"/", "-"}
                /\ AllDigits(SubSeq(dmy, g[1] + g[2] + 3, g[1] + g[2] + 6))}
        padStart(t) == IF Len(t) < 2 THEN <<"0">> \o t ELSE t
    IN  IF m = {} THEN dmy
        ELSE LET g == CHOOSE x \in m : TRUE
             IN  SubSeq(dmy, g[1] + g[2] + 3, g[1] + g[2] + 6) \o <<"-">>
                 \o padStart(SubSeq(dmy, g[1] + 2, g[1] + g[2] + 1)) \o <<"-">>
                 \o padStart(SubSeq(dmy, 1, g[1]))

\* function factsFromRow(row, rowIdx, activeTypes) for a row whose date cell (trimmed
\* by get) is date, YEAR and SINCE unset: one fact, its date_iso being toISO(date)
factsFromRow(date) ==
    <<Item(1, "Opening_Check", W_74, N_GrandCafe, toISO(date), <<0, 1>>)>>

\* the date cells tried: 20/09/2025, 5/9/2025, 20-9-2025, 45/13/2025, 20.09.2025,
\* 2025-09-20, 20/09/25, 2025/09/20 and the empty cell
Call_factsFromRow ==
    /\ call = NoCall
    /\ \E date \in {<<"2", "0", "/", "0", "9", "/", "2", "0", "2", "5">>,
                    <<"5", "/", "9", "/", "2", "0", "2", "5">>,
                    <<"2", "0", "-", "9", "-", "2", "0", "2", "5">>,
                    <<"4", "5", "/", "1", "3", "/", "2", "0", "2", "5">>,
                    <<"2", "0", ".", "0", "9", ".", "2", "0", "2", "5">>,
                    <<"2", "0", "2", "5", "-", "0", "9", "-", "2", "0">>,
                    <<"2", "0", "/", "0", "9", "/", "2", "5">>,
                    <<"2", "0", "2", "5", "/", "0", "9", "/", "2", "0">>,
                    <<>>} :
          call' = [fn |-> "factsFromRow", args |-> date, out |-> factsFromRow(date)]
    /\ UnitFrame

\* an index of TopK + 2 Facts of one restaurant and day, all opening checks but
\* the second, with unit vectors along the axes in turn
LargeIndex ==
    LET n == TopK + 2
        items == [i \in 1..n |->
                    Item(i, IF i = 2 THEN "Closing_Check" ELSE "Opening_Check", W_74, N_GrandCafe,
                         IsoText(2025, 9, 20), <<0, i>>)]
        vecs == [i \in 1..n |-> [j \in 1..ProviderDim |->
                    [val |-> IF j = (i % ProviderDim) + 1 THEN 1 ELSE 0, of |-> <<0, i>>]]]
    IN  [loaded |-> TRUE, dim |-> ProviderDim, count |-> n, items |-> items,
         vec |-> Pack(vecs, ProviderDim)]

\* the retrieval of chat/route.ts, lines 244-246 and 282-283, applied on its own to a
\* loaded index, a message and a query vector: narrowed, top, used and narrowedCount
Call_retrieve ==
    /\ call = NoCall
    /\ \E kb \in {UnitIndex, LargeIndex}, msg \in Messages \ {<<>>},
          qvec \in QueryVectors \ {<<>>}, now \in {<<2025, 9, 20>>} :
         \E tp \in {topKByCosine(qvec, SearchSpace(kb.items, msg, now), TopK, kb)} :
            call' = [fn |-> "retrieve",
                     args |-> [kb |-> kb, msg |-> msg, qvec |-> qvec, now |-> now],
                     out |-> [used |-> [i \in 1..Len(tp) |-> tp[i].item.id],
                              narrowedCount |-> Len(prefilter(kb.items, msg, now))]]
    /\ UnitFrame

\* the call returns; the next one starts from nothing
Return ==
    /\ call # NoCall
    /\ call' = NoCall
    /\ UnitFrame

InitUnit ==
    /\ metaFile = GoodMeta /\ binFile = GoodBin
    /\ LoaderInit /\ BuilderInit /\ ServeIdle

NextUnit ==
    \/ Call_topKByCosine
    \/ Call_tailFor
    \/ Call_summariseExact
    \/ Call_factsFromRow
    \/ Call_retrieve
    \/ Return

SpecUnit == InitUnit /\ [][NextUnit]_vars

(***************************************************************************)
(* Properties of SpecUnit                                                  *)
(***************************************************************************)
\* the score topKByCosine gives the Fact it of the index for the query q
ScoreOf(q, it) ==
    cosineToUnit(q, UnitIndex.vec, (IndexOfId(UnitIndex.items, it.id) - 1) * UnitIndex.dim,
                 UnitIndex.dim)

\* C11: for every query vector, pool and k (12 at the call site), topKByCosine
\* returns min(k, pool size) candidates of the pool, each once and with its score,
\* in non-increasing score order; no candidate left out scores higher than a
\* returned one; and returned candidates of equal score are in corpus order.
C11_TopKRankedStable ==
    call.fn = "topKByCosine" =>
        LET q == call.args.queryVec
            pool == call.args.items
            out == call.out
            n == Len(out)
        IN  /\ n = Min(call.args.k, Len(pool))
            /\ \A i \in 1..n : /\ IndexOfId(pool, out[i].item.id) > 0
                               /\ out[i].score = ScoreOf(q, out[i].item)
            /\ \A i, j \in 1..n : i < j =>
                  /\ out[i].score >= out[j].score
                  /\ out[i].item.id # out[j].item.id
                  /\ out[i].score = out[j].score =>
                        IndexOfId(pool, out[i].item.id) < IndexOfId(pool, out[j].item.id)
            /\ \A m \in 1..Len(pool) :
                  (\A i \in 1..n : out[i].item.id # pool[m].id)
                      => \A i \in 1..n : ScoreOf(q, pool[m]) <= out[i].score

\* two of four candidates are returned, with equal scores, and two are left out
C11_Witness ==
    /\ call.fn = "topKByCosine"
    /\ Len(call.args.items) = 4 /\ call.args.k = 2
    /\ Len(call.out) = 2 /\ call.out[1].score = call.out[2].score

\* the tier the numbers st select when the tiers are tried in the order (a) to (f)
TierOf(st) ==
    IF st.compPct = 100 /\ st.passPct = 100 THEN "well done"
    ELSE IF st.passPct = 100 /\ st.compPct < 100 THEN "all passed"
    ELSE IF st.compPct = 100 /\ st.passPct < 100 THEN "great completion"
    ELSE IF st.passPct >= 90 THEN "some gaps"
    ELSE IF st.passPct >= 70 THEN "noticeable issues"
    ELSE "several items"

\* C14 as stated: the commentary for parsed numbers is that of the first tier that
\* matches of (a) both percentages 100, (b) pass 100 with completion below 100, naming
\* checks - completed, (c) completion 100 with failures, naming completed - passed,
\* (d) pass >= 90, (e) pass >= 70, (f) the rest.
C14_TierBySpecificity ==
    call.fn = "tailFor" =>
        /\ call.out.tier = TierOf(call.args)
        /\ call.out.tier = "all passed"
              => call.out.parts = <<[k |-> "remain", n |-> call.args.checks - call.args.completed]>>
        /\ call.out.tier = "great completion"
              => call.out.parts = <<[k |-> "failed", n |-> call.args.completed - call.args.passed]>>

ParseFails == call.fn = "summariseExact" /\ parseStatsFromText(call.args.text) = <<>>

FirstOfEachText(fs) ==
    /\ \A i, j \in 1..Len(fs) : i # j => fs[i].text # fs[j].text
    /\ \A i \in 1..Len(fs) : fs[i].id[1] = fs[i].text[2]
    /\ \A i, j \in 1..Len(fs) : i < j => fs[i].id[1] < fs[j].id[1]

\* C16: in the list of facts sent to embedding and written to the index no two facts
\* have the same text; of the extracted facts sharing a text only the first in row
\* order survives, and the survivors keep their relative order.
C16_DedupeKeepsFirst ==
    /\ FirstOfEachText(facts)
    /\ bpc = "embed" => FirstOfEachText(Batch(facts, bi))
    /\ FirstOfEachText(metaFile.items)

\* a build of three rows, the second repeating the first, wrote its index
C16_Witness ==
    /\ bpc = "exit" /\ exitCode = 0
    /\ Len(facts) = 2 /\ facts[1].id[1] = 1 /\ facts[2].id[1] = 3
    /\ metaFile.items = facts /\ metaFile.full

\* the text s has the form YYYY-MM-DD
IsYMD(s) ==
    /\ Len(s) = 10 /\ s[5] = "-" /\ s[8] = "-"
    /\ AllDigits(SubSeq(s, 1, 4)) /\ AllDigits(SubSeq(s, 6, 7)) /\ AllDigits(SubSeq(s, 9, 10))

\* C17 as stated: every fact built from a row has meta.date_iso in the form
\* YYYY-MM-DD, whatever the row's date cell holds.
C17_DateIsoIsYMD ==
    call.fn = "factsFromRow" =>
        \A i \in 1..Len(call.out) : IsYMD(call.out[i].meta.date_iso)

RECURSIVE Power(_, _)
Power(r, n) == IF n = 0 THEN 1 ELSE r * Power(r, n - 1)

\* C18 as stated: a batch's request is attempted at most 5 times; the wait after the
\* n-th failure grows exponentially with n, i.e. it is the wait after a first failure
\* (1000 ms, or 2000 ms after a 429) times the (n-1)-th power of a factor of 2 or more;
\* the wait after a 429 is the longer of the two.
C18_BackoffIsExponential ==
    [][tries' = tries + 1 =>
          /\ tries' <= MaxTries
          /\ \E r \in 2..4 : lastSleep' \in {1000 * Power(r, tries' - 1), 2000 * Power(r, tries' - 1)}]_vars

Suggested == route = "suggestions" /\ rpc = "done" /\ resp[1].status = 200

\* C19: whatever the corpus, lastUserText, preferredTypes (a list may repeat a type)
\* and limit, no prompt, i.e. no (type, restaurant_key, date), is suggested twice.
C19_NoPromptTwice ==
    Suggested =>
        \A i, j \in 1..Len(resp[1].suggestions) :
            i # j => resp[1].suggestions[i] # resp[1].suggestions[j]

\* a list repeating a type, over an index holding two facts of one prompt: the
\* three different prompts of the four facts are suggested
C19_Witness ==
    /\ Suggested
    /\ body.preferredTypes = <<"Opening_Check", "Opening_Check">>
    /\ body.lastUserText = <<>> /\ body.limit = DefaultLimit
    /\ Len(BIN.items) = 4 /\ PromptOf(BIN.items[1]) = PromptOf(BIN.items[2])
    /\ Len(resp[1].suggestions) = 3

\* C20 as stated: the number of suggestions returned is at most the limit of the
\* request (DefaultLimit when it gives none), for every preferredTypes and limit >= 0.
C20_AtMostLimit ==
    Suggested => Len(resp[1].suggestions) <= body.limit

\* the content of the last turn of role "user" of the body b, <<>> when it has none
FinalUserContent(b) ==
    LET us == {i \in 1..Len(b.messages) : b.messages[i].role = "user"}
    IN  IF us = {} THEN <<>>
        ELSE b.messages[CHOOSE i \in us : \A j \in us : j <= i].content

\* C21 as stated: the query text of a request is the content of the final user-role
\* turn of its conversation, so that nothing computed from it (hints, fast-path
\* outcome, used ids) depends on an earlier turn or on a turn of another role.
C21_QueryIsFinalUserTurn ==
    (route = "chat" /\ rpc # "idle" /\ body.parsable) => userMsg = FinalUserContent(body)

ProviderFailure == rpc \in {"embedding", "completing"} /\ ~raised /\ raised'

\* C23: a chat request issues at most one embedding call and at most one completion
\* call; the completion call comes only after the embedding call and a ranking with
\* at least one result; when either call fails the request ends at once with a 500
\* response and no further call.
C23_OneCallEachNoRetry ==
    /\ [](route = "chat" => /\ embCalls <= 1 /\ chatCalls <= 1
                            /\ chatCalls = 1 => embCalls = 1 /\ Len(top) > 0)
    /\ [][ProviderFailure => /\ rpc' = "done" /\ resp' = <<ErrorResponse(500)>>
                             /\ embCalls' = embCalls /\ chatCalls' = chatCalls]_vars

\* the completion call of a request failed after its embedding call had succeeded
C23_Witness ==
    /\ route = "chat" /\ rpc = "done" /\ raised
    /\ embCalls = 1 /\ chatCalls = 1 /\ Len(top) > 0
    /\ resp = <<ErrorResponse(500)>>

\* C24: a failed attempt on a batch adds no vector; when a batch has finished, on
\* its first or a later attempt, there are as many vectors as facts in the batches
\* processed so far, the i-th vector being that of the i-th fact.
C24_FailedAttemptAddsNothing ==
    /\ [][tries' = tries + 1 => vectors' = vectors /\ done' = done]_vars
    /\ []((bpc = "loopEnd" /\ ok) =>
            /\ Len(vectors) = Min(bi * BatchSize, Len(facts))
            /\ Len(vectors) = done
            /\ \A i \in 1..Len(vectors) : \A j \in 1..Len(vectors[i]) :
                  vectors[i][j].of = facts[i].text)

\* the second and last batch of a build has finished after a failed attempt
C24_Witness ==
    /\ bpc = "loopEnd" /\ ok /\ tries > 0
    /\ bi = 2 /\ Len(facts) > BatchSize /\ Len(vectors) = Len(facts)

\* C25 as stated: when a chat request's message gives a restaurant id, a date and a
\* check type and no Fact matches all three (the request is not answered on the fast
\* path), its narrowed set is empty, the pool ranked is the whole corpus and the
\* response reports narrowedCount = 0.
C25_NoExactMeansNothingNarrowed ==
    (route = "chat" /\ rpc = "done" /\ AllHints(hints)
        /\ resp[1].status = 200 /\ resp[1].kind # "exact")
        => /\ Len(narrowed) = 0
           /\ searchSpace = BIN.items
           /\ resp[1].narrowedCount = 0

\* the Fact x satisfies every hint prefilter extracts from msg at the time now
SatisfiesHints(x, msg, now) ==
    /\ ridMatch(msg) # NoStr => KeyIs(x, ridMatch(msg))
    /\ Len(nameMatch(msg)) >= 3 => NameHas(x, nameMatch(msg))
    /\ toIsoDate(msg, now) # NoStr => DateStarts(x, toIsoDate(msg, now))
    /\ detectType(msg) # "undefined" => TypeIs(x, detectType(msg))

\* C26: the used list of a ranked answer holds at most TopK ids, each the id of a
\* Fact of the loaded index, none twice; and when narrowedCount > 0 every Fact it
\* names satisfies all the hints the retrieval extracts from the message.
C26_UsedBoundedAndNarrowed ==
    call.fn = "retrieve" =>
        LET used == call.out.used
            all == call.args.kb.items
        IN  /\ Len(used) <= TopK
            /\ \A i \in 1..Len(used) : IndexOfId(all, used[i]) > 0
            /\ \A i, j \in 1..Len(used) : i # j => used[i] # used[j]
            /\ call.out.narrowedCount > 0 =>
                  \A i \in 1..Len(used) :
                      SatisfiesHints(all[IndexOfId(all, used[i])], call.args.msg, call.args.now)

\* thirteen Facts of the larger index satisfy the type hint; twelve are used
C26_Witness ==
    /\ call.fn = "retrieve"
    /\ Len(call.args.kb.items) = TopK + 2
    /\ detectType(call.args.msg) = "Opening_Check"
    /\ call.out.narrowedCount = TopK + 1
    /\ Len(call.out.used) = TopK

====
